---- MODULE Spec2Model ----
(***************************************************************************)
(* Model of the tidba operator console:                                    *)
(*   - the interactive dispatch engine, CommandLine.Run (cmd/readline.go)  *)
(*   - the session termination engine (model/kill/query.go)                *)
(* Strings are sequences of one-character strings, so that splitting,     *)
(* comment stripping and tokenising are computed as the code computes     *)
(* them.                                                                   *)
(***************************************************************************)
EXTENDS Integers, Sequences, FiniteSets, TLC

(***************************************************************************)
(* Bounds of the model.                                                    *)
(***************************************************************************)
\* number of lines the operator types in one run of the console
MaxLines == 3

(***************************************************************************)
(* Go string helpers (package strings), on sequences of characters.        *)
(***************************************************************************)
IsSpaceChar(c) == c \in {" ", "\t", "\n"}

LowerChars == <<"a","b","c","d","e","f","g","h","i","j","k","l","m",
                "n","o","p","q","r","s","t","u","v","w","x","y","z">>
UpperChars == <<"A","B","C","D","E","F","G","H","I","J","K","L","M",
                "N","O","P","Q","R","S","T","U","V","W","X","Y","Z">>

\* unicode.ToUpper on the letters a..z
UpperOfLower == [c \in {LowerChars[i] : i \in 1..26} |->
                    UpperChars[CHOOSE i \in 1..26 : LowerChars[i] = c]]

ToUpperChar(c) == IF c \in DOMAIN UpperOfLower THEN UpperOfLower[c] ELSE c

ToUpper(s) == [i \in 1..Len(s) |-> ToUpperChar(s[i])]

\* strings.EqualFold
EqualFold(a, b) == ToUpper(a) = ToUpper(b)

\* s[from:] with a 1-based first index
Drop(s, from) == SubSeq(s, from, Len(s))

\* s[:to] with a 1-based last index
Take(s, to) == SubSeq(s, 1, to)

HasPrefixAt(s, i, pat) ==
    /\ i + Len(pat) - 1 <= Len(s)
    /\ \A k \in 1..Len(pat) : s[i + k - 1] = pat[k]

\* strings.Index: the 1-based position of the first occurrence, 0 when absent
Index(s, pat) ==
    IF \E i \in 1..Len(s) : HasPrefixAt(s, i, pat)
    THEN CHOOSE i \in 1..Len(s) :
            /\ HasPrefixAt(s, i, pat)
            /\ \A j \in 1..(i - 1) : ~HasPrefixAt(s, j, pat)
    ELSE 0

\* strings.HasSuffix
HasSuffix(s, suf) ==
    /\ Len(suf) <= Len(s)
    /\ SubSeq(s, Len(s) - Len(suf) + 1, Len(s)) = suf

RECURSIVE TrimLeftSpace(_)
TrimLeftSpace(s) ==
    IF s # <<>> /\ IsSpaceChar(Head(s)) THEN TrimLeftSpace(Tail(s)) ELSE s

RECURSIVE TrimRightSpace(_)
TrimRightSpace(s) ==
    IF s # <<>> /\ IsSpaceChar(s[Len(s)])
    THEN TrimRightSpace(Take(s, Len(s) - 1))
    ELSE s

\* strings.TrimSpace
TrimSpace(s) == TrimRightSpace(TrimLeftSpace(s))

RECURSIVE TrimLeftChar(_, _)
TrimLeftChar(s, c) ==
    IF s # <<>> /\ Head(s) = c THEN TrimLeftChar(Tail(s), c) ELSE s

RECURSIVE TrimRightChar(_, _)
TrimRightChar(s, c) ==
    IF s # <<>> /\ s[Len(s)] = c
    THEN TrimRightChar(Take(s, Len(s) - 1), c)
    ELSE s

\* strings.Trim(s, cutset) for a one-character cutset
Trim(s, c) == TrimRightChar(TrimLeftChar(s, c), c)

\* strings.Fields: the maximal runs of non-space characters, in order
RECURSIVE FieldsFrom(_, _, _)
FieldsFrom(s, cur, acc) ==
    IF s = <<>>
    THEN IF cur = <<>> THEN acc ELSE Append(acc, cur)
    ELSE IF IsSpaceChar(Head(s))
         THEN FieldsFrom(Tail(s), <<>>, IF cur = <<>> THEN acc ELSE Append(acc, cur))
         ELSE FieldsFrom(Tail(s), Append(cur, Head(s)), acc)

Fields(s) == FieldsFrom(s, <<>>, <<>>)

\* strings.Split(s, "\n")
RECURSIVE SplitLinesFrom(_, _, _)
SplitLinesFrom(s, cur, acc) ==
    IF s = <<>>
    THEN Append(acc, cur)
    ELSE IF Head(s) = "\n"
         THEN SplitLinesFrom(Tail(s), <<>>, Append(acc, cur))
         ELSE SplitLinesFrom(Tail(s), Append(cur, Head(s)), acc)

SplitLines(s) == SplitLinesFrom(s, <<>>, <<>>)

\* strings.Join(lines, " ")
RECURSIVE JoinSpace(_)
JoinSpace(ls) ==
    IF ls = <<>> THEN <<>>
    ELSE IF Len(ls) = 1 THEN ls[1]
    ELSE ls[1] \o <<" ">> \o JoinSpace(Tail(ls))

(***************************************************************************)
(* Delimiter Splitter and Comment Stripper (cmd/readline.go).              *)
(***************************************************************************)
\* a regular expression that knows ";" only
RECURSIVE FindAllDelimiters_SemiOnly(_, _)
FindAllDelimiters_SemiOnly(input, i) ==
    IF i > Len(input) THEN <<>>
    ELSE IF input[i] = ";"
         THEN <<(<<i, i + 1>>)>> \o FindAllDelimiters_SemiOnly(input, i + 1)
    ELSE FindAllDelimiters_SemiOnly(input, i + 1)

\* the matches of the regular expression (;|\\G), leftmost and non-overlapping,
\* as <<start, end>> pairs of 1-based positions (end exclusive)
RECURSIVE FindAllDelimiters(_, _)
FindAllDelimiters(input, i) ==
    IF i > Len(input) THEN <<>>
    ELSE IF input[i] = ";"
         THEN <<(<<i, i + 1>>)>> \o FindAllDelimiters(input, i + 1)
    ELSE IF HasPrefixAt(input, i, <<"\\", "G">>)
         THEN <<(<<i, i + 2>>)>> \o FindAllDelimiters(input, i + 2)
    ELSE FindAllDelimiters(input, i + 1)

\* a loop that never advances lastIndex
RECURSIVE GroupsOfMatches_Stale(_, _, _)
GroupsOfMatches_Stale(input, matches, lastIndex) ==
    IF matches = <<>> THEN <<>>
    ELSE LET m == Head(matches) IN
         <<[Value     |-> SubSeq(input, lastIndex, m[1] - 1),
            Delimiter |-> SubSeq(input, m[1], m[2] - 1)]>>
         \o GroupsOfMatches_Stale(input, Tail(matches), lastIndex)

\* the loop over the matches: one Group per match
RECURSIVE GroupsOfMatches(_, _, _)
GroupsOfMatches(input, matches, lastIndex) ==
    IF matches = <<>> THEN <<>>
    ELSE LET m == Head(matches) IN
         <<[Value     |-> SubSeq(input, lastIndex, m[1] - 1),
            Delimiter |-> SubSeq(input, m[1], m[2] - 1)]>>
         \o GroupsOfMatches(input, Tail(matches), m[2])

\* a last part that is omitted
LastPart_Omitted(result, lastValue) == result

\* lines 473-479: the part after the last delimiter, trimmed, is appended as
\* a group with an empty delimiter unless it is empty
LastPart(result, lastValue) ==
    IF lastValue # <<>>
    THEN Append(result, [Value |-> lastValue, Delimiter |-> <<>>])
    ELSE result

\* splitStringWithDelimiter: [groups, found]
splitStringWithDelimiter(input) ==
    LET matches == FindAllDelimiters(input, 1) IN
    IF matches = <<>>
    THEN [groups |-> <<>>, found |-> FALSE]
    ELSE LET lastIndex == matches[Len(matches)][2]
             lastValue == TrimSpace(Drop(input, lastIndex))
             result    == GroupsOfMatches(input, matches, 1)
         IN [groups |-> LastPart(result, lastValue),
             found  |-> TRUE]

\* one iteration of skipComments' loop over the lines:
\* [text |-> what is written to the result, inBlock |-> inBlockComment after it]
skipCommentsLine(rawLine, inBlockComment) ==
    LET line0 == TrimSpace(rawLine)
        endIn == Index(line0, <<"*", "/">>)
    IN
    IF inBlockComment /\ endIn = 0
    THEN [text |-> <<>>, inBlock |-> TRUE]
    ELSE LET line1   == IF inBlockComment THEN Drop(line0, endIn + 2) ELSE line0
             dash    == Index(line1, <<"-", "-">>)
             line2   == IF dash # 0 THEN Take(line1, dash - 1) ELSE line1
             idx     == Index(line2, <<"/", "*">>)
             endIdx  == Index(line2, <<"*", "/">>)
         IN
         IF idx = 0 THEN [text |-> line2, inBlock |-> FALSE]
         ELSE IF endIdx = 0
              THEN [text |-> Take(line2, idx - 1), inBlock |-> TRUE]
              ELSE [text |-> Take(line2, idx - 1) \o Drop(line2, endIdx + 2),
                    inBlock |-> FALSE]

RECURSIVE skipCommentsLoop(_, _, _)
skipCommentsLoop(lines, inBlockComment, result) ==
    IF lines = <<>> THEN result
    ELSE LET r == skipCommentsLine(Head(lines), inBlockComment) IN
         skipCommentsLoop(Tail(lines), r.inBlock, result \o r.text)

\* skipComments
skipComments(input) == TrimSpace(skipCommentsLoop(SplitLines(input), FALSE, <<>>))

(***************************************************************************)
(* The interactive dispatch engine: CommandLine and CommandLine.Run.       *)
(***************************************************************************)
VARIABLES
    inputBuffer,        \* Run's inputBuffer: the lines buffered so far
    activeCluster,      \* CommandLine.activeCluster ("" is <<>>)
    activeClusterConn,  \* CommandLine.activeClusterConn: NilConn or the handle
    activceDbName,      \* CommandLine.activceDbName
    pc,                 \* "prompt" | "dispatch" | "returned" | "exited" | "panicked"
    retErr,             \* what Run returned: "none" while it runs, "nil" or the error
    groups,             \* the groups of the flush being dispatched
    gidx,               \* the index of the group the range loop is at
    nread,              \* lines read so far
    line,               \* the line of the current loop iteration
    bufWasEmpty,        \* len(inputBuffer) == 0 when the line was read
    path,               \* the branch of Run the current line took
    calls,              \* the calls made on the connection in this iteration
    out,                \* what was printed in this iteration
    saved,              \* what was passed to SaveHistory in this iteration
    dispErr,            \* connection/execution errors met in this iteration
    accesses            \* the accesses to the Session Context in this iteration,
                        \* each with the mode in which l.mutex was held

runVars == <<inputBuffer, activeCluster, activeClusterConn, activceDbName, pc,
             retErr, groups, gidx, nread, line, bufWasEmpty, path, calls, out,
             saved, dispErr, accesses>>

\* the state of one invocation of the session termination engine
VARIABLES
    kpc,            \* the calling goroutine: "start" | "select" | "returned"
    kret,           \* what the function returned: "none" while it runs, "nil" or the error
    duration,       \* the duration argument
    concurrency,    \* the concurrency argument
    parentCtx,      \* the context the caller passed in: "live" | "canceled"
    ctx,            \* ctx.Err() of the function's context: "live" | "canceled" | "deadline"
    sig,            \* a signal is waiting in sigChan
    stopLog,        \* what the final select logged
    gpc,            \* the round goroutine: "idle" | "loop" | "discover" | "spawn" | "wait" | "sleep" | "exit"
    round,          \* round
    sessionCounts,  \* the atomic counter
    results,        \* the sessions the round's discovery returned
    next,           \* the position of the range loop over results
    wstate,         \* per session, its kill goroutine of this round
    sem,            \* tokens held in the errgroup's semaphore
    gErr,           \* the errgroup has recorded its first error (gCtx is cancelled)
    nDiscovery,     \* discovery queries issued so far
    nKill,          \* kill calls issued so far
    failed          \* the failures met: "discovery", "kill"

killVars == <<kpc, kret, duration, concurrency, parentCtx, ctx, sig, stopLog, gpc, round,
              sessionCounts, results, next, wstate, sem, gErr, nDiscovery, nKill,
              failed>>

\* one application of the Delimiter Splitter or of the Comment Stripper
VARIABLES
    fnInput,        \* the text the function is given
    fnStage,        \* "idle" | "input" | "split" | "strip"
    fnGroups,       \* what splitStringWithDelimiter returned: [groups, found]
    fnText          \* what skipComments returned

fnVars == <<fnInput, fnStage, fnGroups, fnText>>

\* the SqlQueryModel and the program that runs it (model/sql/sql.go)
VARIABLES
    spc,            \* the program: "idle" | "running" | "quitting" | "quit"
    command,        \* m.command
    mode,           \* m.mode
    sqlCtx,         \* m.ctx: "live" | "canceled"
    frame,          \* the frame of m.spinner
    hasMsgs,        \* m.Msgs is set
    hasError,       \* m.Error is set
    submitted,      \* data-submission commands returned by Update so far
    pending,        \* data-submission commands whose message is not delivered
    nmsgs           \* messages given to Update so far

sqlVars == <<spc, command, mode, sqlCtx, frame, hasMsgs, hasError, submitted,
             pending, nmsgs>>

\* words of the input alphabet
w_select  == <<"s","e","l","e","c","t">>
w_show    == <<"S","h","o","w">>
w_use     == <<"u","s","e">>
w_drop    == <<"d","r","o","p">>
w_login   == <<"l","o","g","i","n">>
w_logout  == <<"l","o","g","o","u","t">>
w_clear   == <<"c","l","e","a","r">>
w_help    == <<"h","e","l","p">>
w_exit    == <<"e","x","i","t">>
w_quit    == <<"q","u","i","t">>
w_license == <<"l","i","c","e","n","s","e">>
w_sql     == <<"s","q","l">>
sp        == <<" ">>
semi      == <<";">>
slashG    == <<"\\","G">>

allowedSelectQueryCommand  == <<"S","E","L","E","C","T">>
allowedShowQueryCommand    == <<"S","H","O","W">>
allowedUseQueryCommand     == <<"U","S","E">>
allowedExplainQueryCommand == <<"E","X","P","L","A","I","N">>
allowedQueryCommands ==
    <<allowedSelectQueryCommand, allowedShowQueryCommand,
      allowedUseQueryCommand, allowedExplainQueryCommand>>

\* the Use names of the root command's sub-commands, collected by getRootCmd
cmds == <<w_login, w_logout, w_clear, w_license, w_sql>>

\* the clusters of the connection registry
Clusters == {<<"a">>, <<"b">>}

\* the lines the operator may type
Lines ==
    { w_select \o sp \o <<"1">> \o semi,                          \* select 1;
      w_show \o sp \o <<"t">> \o slashG,                          \* Show t\G
      w_select \o sp \o <<"1">>,                                  \* select 1
      w_select \o sp \o <<"1">> \o semi \o sp \o w_drop \o sp \o <<"t">> \o semi,
                                                                  \* select 1; drop t;
      w_use \o sp \o <<"d">> \o semi,                             \* use d;
      w_use \o sp \o semi,                                        \* use ;
      w_select \o sp \o <<"1">> \o semi \o sp \o semi,            \* select 1; ;
      w_show \o sp \o <<"t">> \o semi \o <<"/","*","c","*","/">> \o semi,
                                                                  \* Show t;/*c*/;
      w_select \o sp \o <<"1">> \o semi \o semi,                  \* select 1;;
      w_drop \o sp \o <<"t">> \o semi,                            \* drop t;
      w_login \o sp \o <<"-","c">> \o sp \o <<"a">>,              \* login -c a
      w_login \o sp \o <<"-","c">> \o sp \o <<"b">>,              \* login -c b
      w_logout,                                                   \* logout
      w_login \o sp \o <<"\"","a">>,                              \* login "a
      w_drop \o sp \o <<"\"","t">>,                               \* drop "t
      semi,                                                       \* ;
      w_select \o sp \o <<"/","*">> \o semi \o <<"*","/">> \o sp \o <<"1">> \o semi,
                                                                  \* select /*;*/ 1;
      w_use \o sp \o <<"d">> \o semi \o sp \o w_select \o sp \o <<"1">> \o semi,
                                                                  \* use d; select 1;
      w_select \o sp \o <<"1">> \o semi \o w_drop \o sp \o <<"t">> \o semi
          \o w_show \o sp \o <<"t">> \o semi,                    \* select 1;drop t;Show t;
      w_select \o sp \o <<"1">> \o semi \o semi \o w_show \o sp \o <<"t">> \o semi,
                                                                  \* select 1;;Show t;
      sp \o w_clear,                                              \*  clear
      w_help,                                                     \* help
      w_exit }                                                    \* exit

\* a nil *mysql.Database, and the registry's handle of a cluster
NilConn == <<>>
Handle(clusterName) == <<"conn", clusterName>>

\* stringutil.IsContainStringIgnoreCase
IsContainStringIgnoreCase(s, list) ==
    \E i \in 1..Len(list) : EqualFold(s, list[i])

\* shellwords.Parse as Run uses it: an unterminated double quote is an error,
\* otherwise the line's words
shellwordsParse(l) ==
    LET quotes == {i \in 1..Len(l) : l[i] = "\""} IN
    IF Cardinality(quotes) % 2 = 1
    THEN [err |-> TRUE, args |-> <<>>]
    ELSE [err |-> FALSE, args |-> Fields(l)]

\* rootCmd.Execute on the parsed arguments: the command tree looks the name up;
\* an unknown name is an error, login/logout change the Session Context
CommandTreeExecute(args) ==
    IF args = <<>> THEN {[err |-> FALSE, effect |-> "none", cluster |-> <<>>]}
    ELSE IF args[1] = w_login
         THEN IF Len(args) = 3 /\ args[2] = <<"-","c">> /\ args[3] \in Clusters
              THEN {[err |-> FALSE, effect |-> "login", cluster |-> args[3]],
                    [err |-> TRUE, effect |-> "none", cluster |-> <<>>]}
              ELSE {[err |-> TRUE, effect |-> "none", cluster |-> <<>>]}
    ELSE IF args[1] = w_logout
         THEN {[err |-> FALSE, effect |-> "logout", cluster |-> <<>>]}
    ELSE IF \E i \in 1..Len(cmds) : cmds[i] = args[1]
         THEN {[err |-> FALSE, effect |-> "none", cluster |-> <<>>],
               [err |-> TRUE, effect |-> "none", cluster |-> <<>>]}
    ELSE {[err |-> TRUE, effect |-> "none", cluster |-> <<>>]}

\* the Session Context as a record
Session == [cluster |-> activeCluster, conn |-> activeClusterConn, db |-> activceDbName]

\* CommandLine.SetClusterName
SetClusterName(sess, clusterName) == [sess EXCEPT !.cluster = clusterName]

\* CommandLine.ResetClusterName
ResetClusterName(sess) == [cluster |-> <<>>, conn |-> NilConn, db |-> <<>>]

\* a SetDatabaseName that stores nothing
SetDatabaseName_Keep(sess, databaseName) == sess

\* CommandLine.SetDatabaseName
SetDatabaseName(sess, databaseName) == [sess EXCEPT !.db = databaseName]

\* the effect of a command on the Session Context
ApplyEffect(sess, o) ==
    IF o.effect = "login" THEN SetClusterName(sess, o.cluster)
    ELSE IF o.effect = "logout" THEN ResetClusterName(sess)
    ELSE sess

\* Run, line 232: the lines after strings.TrimSpace
TrimmedLines == {TrimSpace(raw) : raw \in Lines}

\* Run, lines 270-271: whether the line's first word is a command name, and
\* whether it is an allowed SQL verb (tabulated over the lines once)
FirstWordIsCommand ==
    [l \in TrimmedLines \ {<<>>} |-> IsContainStringIgnoreCase(Fields(l)[1], cmds)]
FirstWordIsAllowed ==
    [l \in TrimmedLines \ {<<>>} |->
        IsContainStringIgnoreCase(Fields(l)[1], allowedQueryCommands)]

\* Run, line 271: the line is executed as a tidba command
\* a test that does not look at the buffer
IsCommandLine_AnyBuffer(l, buffer) ==
    FirstWordIsCommand[l] \/ ~FirstWordIsAllowed[l]

\* a test that sends only known command names to the command branch
IsCommandLine_OnlyKnown(l, buffer) ==
    FirstWordIsCommand[l] /\ Len(buffer) = 0

IsCommandLine(l, buffer) ==
    \/ FirstWordIsCommand[l] /\ Len(buffer) = 0
    \/ ~FirstWordIsAllowed[l] /\ Len(buffer) = 0

\* line 296 without the check of the cluster name
NoActiveCluster_Unchecked(cluster) == FALSE

\* Run, line 296: no cluster is logged in
NoActiveCluster(cluster) == cluster = <<>>

\* Run, line 295: the line completes the buffered input
LineEndsWithTerminator ==
    [l \in TrimmedLines |-> HasSuffix(l, semi) \/ HasSuffix(l, slashG)]
EndsWithTerminator(l) == LineEndsWithTerminator[l]

\* Run, line 273: shellwords.Parse of each line
ParsedLine == [l \in TrimmedLines |-> shellwordsParse(l)]

\* the allow-list decision with every verb let through
IsAllowed_AllowAll(queryType) == TRUE

\* Run, lines 331-355: the allow-list decision on a group's leading token
IsAllowed(queryType) ==
    \/ EqualFold(queryType, allowedSelectQueryCommand)
    \/ EqualFold(queryType, allowedShowQueryCommand)
    \/ EqualFold(queryType, allowedUseQueryCommand)
    \/ EqualFold(queryType, allowedExplainQueryCommand)

\* the modes of sync.RWMutex, and no lock at all
Lock     == "Lock"
RLock    == "RLock"
Unlocked == "none"

\* the mode in which each accessor of CommandLine takes l.mutex
GetClusterNameLock   == RLock
SetDatabaseNameLock  == RLock
SetClusterNameLock   == RLock
ResetClusterNameLock == RLock

\* one access to a field of the Session Context: kind is "use" or "mutate"
Access(field, kind, lock) == [field |-> field, kind |-> kind, lock |-> lock]

\* getRootCmd (line 193): the active cluster name is read through GetClusterName
RootCmdAccesses == {Access("activeCluster", "use", GetClusterNameLock)}

\* the accesses of a command's effect on the Session Context
EffectAccesses(o) ==
    IF o.effect = "login"
    THEN {Access("activeCluster", "mutate", SetClusterNameLock)}
    ELSE IF o.effect = "logout"
    THEN {Access(f, "mutate", ResetClusterNameLock) :
            f \in {"activeCluster", "activceDbName", "activeClusterConn"}}
    ELSE {}

\* NewCommandLine: with a cluster name the connection is opened and the name set,
\* without one SetDefaultPrompt leaves the Session Context empty
InitRun ==
    /\ inputBuffer = <<>>
    /\ \/ /\ activeCluster = <<>>
          /\ activeClusterConn = NilConn
       \/ \E c \in Clusters :
            /\ activeCluster = c
            /\ activeClusterConn = Handle(c)
    /\ activceDbName = <<>>
    /\ pc = "prompt"
    /\ retErr = "none"
    /\ groups = <<>>
    /\ gidx = 0
    /\ nread = 0
    /\ line = <<>>
    /\ bufWasEmpty = TRUE
    /\ path = "none"
    /\ calls = <<>>
    /\ out = <<>>
    /\ saved = <<>>
    /\ dispErr = {}
    /\ accesses = {}

\* a line arrives at the prompt: the iteration's observers start afresh
CanRead == pc = "prompt" /\ nread < MaxLines

Typed(l, branch) ==
    /\ CanRead
    /\ nread' = nread + 1
    /\ line' = l
    /\ bufWasEmpty' = (inputBuffer = <<>>)
    /\ path' = branch

\* Readline fails: ErrInterrupt and io.EOF leave the loop (Run returns nil),
\* any other error is printed and the loop continues
\* groups is a variable of the flush: outside one there is none
NoGroups == groups' = <<>> /\ gidx' = 0

ReadlineError ==
    /\ UNCHANGED <<killVars, fnVars, sqlVars>>
    /\ NoGroups
    /\ CanRead
    /\ nread' = nread + 1
    /\ line' = <<>>
    /\ bufWasEmpty' = (inputBuffer = <<>>)
    /\ path' = "readerr"
    /\ \/ /\ pc' = "returned"
          /\ retErr' = "nil"
          /\ out' = <<>>
       \/ /\ pc' = "prompt"
          /\ retErr' = retErr
          /\ out' = <<"READ_LINE_ERROR">>
    /\ calls' = <<>> /\ saved' = <<>> /\ dispErr' = {}
    /\ UNCHANGED <<inputBuffer, activeCluster, activeClusterConn, activceDbName>>
    /\ accesses' = {}

\* an empty line is skipped
EmptyLine ==
    /\ UNCHANGED <<killVars, fnVars, sqlVars>>
    /\ NoGroups
    /\ Typed(TrimSpace(sp), "empty")
    /\ calls' = <<>> /\ saved' = <<>> /\ dispErr' = {} /\ out' = <<>>
    /\ UNCHANGED <<inputBuffer, activeCluster, activeClusterConn, activceDbName,
                   pc, retErr>>
    /\ accesses' = {}

\* exit or quit: os.Exit(0)
ExitLine ==
    /\ UNCHANGED <<killVars, fnVars, sqlVars>>
    /\ NoGroups
    /\ \E l \in TrimmedLines :
        /\ l = w_exit \/ l = w_quit
        /\ Typed(l, "exit")
        /\ pc' = "exited"
        /\ out' = <<"BYE">>
        /\ calls' = <<>> /\ saved' = <<>> /\ dispErr' = {}
        /\ UNCHANGED <<inputBuffer, activeCluster, activeClusterConn,
                       activceDbName, retErr>>
    /\ accesses' = {}

\* SaveHistory: it succeeds and the loop continues, or Run returns its error
SaveHistoryThen(entry) ==
    \/ /\ saved' = <<entry>>
       /\ pc' = "prompt"
       /\ retErr' = retErr
    \/ /\ saved' = <<>>
       /\ pc' = "returned"
       /\ retErr' = "save_history"

\* a clear that empties the buffer
BufferAfterClear_Emptied(buffer) == <<>>

\* lines 244-253: the clear branch does not assign inputBuffer
BufferAfterClear(buffer) == buffer

\* clear: the screen is cleared and the line saved; the buffer is not touched
ClearLine ==
    /\ UNCHANGED <<killVars, fnVars, sqlVars>>
    /\ NoGroups
    /\ \E l \in TrimmedLines :
        /\ l = w_clear
        /\ Typed(l, "clear")
        /\ \/ /\ saved' = <<>>
              /\ pc' = "returned"
              /\ retErr' = "clear_screen"
              /\ out' = <<>>
           \/ /\ SaveHistoryThen(l)
              /\ out' = <<"CLEAR_SCREEN">>
        /\ calls' = <<>> /\ dispErr' = {}
        /\ inputBuffer' = BufferAfterClear(inputBuffer)
        /\ UNCHANGED <<activeCluster, activeClusterConn, activceDbName>>
    /\ accesses' = {}

\* help: the command tree's help output
HelpLine ==
    /\ UNCHANGED <<killVars, fnVars, sqlVars>>
    /\ NoGroups
    /\ \E l \in TrimmedLines :
        /\ l = w_help
        /\ Typed(l, "help")
        /\ SaveHistoryThen(l)
        /\ out' = <<"HELP">>
        /\ calls' = <<>> /\ dispErr' = {}
        /\ UNCHANGED <<inputBuffer, activeCluster, activeClusterConn,
                       activceDbName>>
    /\ accesses' = RootCmdAccesses

NotBuiltin(l) == l # <<>> /\ l # w_exit /\ l # w_quit /\ l # w_clear /\ l # w_help

\* the line is a tidba command (lines 270-289)
CommandExec ==
    /\ UNCHANGED <<killVars, fnVars, sqlVars>>
    /\ NoGroups
    /\ \E l \in TrimmedLines :
        /\ NotBuiltin(l)
        /\ IsCommandLine(l, inputBuffer)
        /\ Typed(l, "command")
        /\ LET parsed == ParsedLine[l] IN
           IF parsed.err
           THEN /\ pc' = "returned"
                /\ retErr' = "parse_command"
                /\ out' = <<>>
                /\ saved' = <<>>
                /\ accesses' = RootCmdAccesses
                /\ UNCHANGED <<activeCluster, activeClusterConn, activceDbName>>
           ELSE \E o \in CommandTreeExecute(parsed.args) :
                LET sess == ApplyEffect(Session, o) IN
                /\ activeCluster' = sess.cluster
                /\ activeClusterConn' = sess.conn
                /\ activceDbName' = sess.db
                /\ out' = IF o.err THEN <<"CMD_ERROR">> ELSE <<"CMD_OK">>
                /\ accesses' = RootCmdAccesses \cup EffectAccesses(o)
                /\ SaveHistoryThen(l)
        /\ calls' = <<>> /\ dispErr' = {}
        /\ UNCHANGED inputBuffer

\* the line is appended to the buffer and does not complete it (line 292)
BufferLine ==
    /\ UNCHANGED <<killVars, fnVars, sqlVars>>
    /\ NoGroups
    /\ \E l \in TrimmedLines :
        /\ NotBuiltin(l)
        /\ ~IsCommandLine(l, inputBuffer)
        /\ ~EndsWithTerminator(l)
        /\ Typed(l, "sql")
        /\ inputBuffer' = Append(inputBuffer, l)
        /\ calls' = <<>> /\ dispErr' = {} /\ out' = <<>> /\ saved' = <<>>
        /\ UNCHANGED <<activeCluster, activeClusterConn, activceDbName, pc,
                       retErr>>
    /\ accesses' = RootCmdAccesses

\* Run reads l.activeCluster (lines 296, 316) and reads and assigns
\* l.activeClusterConn (lines 315, 320, 340, 359) directly, l.mutex not held
FlushAccesses == RootCmdAccesses \cup {Access("activeCluster", "use", Unlocked)}
ConnAccess(kind) == {Access("activeClusterConn", kind, Unlocked)}

\* the line completes the buffer but no cluster is active (lines 296-300)
FlushNoCluster ==
    /\ UNCHANGED <<killVars, fnVars, sqlVars>>
    /\ NoGroups
    /\ \E l \in TrimmedLines :
        /\ NotBuiltin(l)
        /\ ~IsCommandLine(l, inputBuffer)
        /\ EndsWithTerminator(l)
        /\ NoActiveCluster(activeCluster)
        /\ Typed(l, "sql")
        /\ out' = <<"ERR_CLUSTER_NAME_EMPTY">>
        /\ inputBuffer' = <<>>
        /\ calls' = <<>> /\ dispErr' = {} /\ saved' = <<>>
        /\ UNCHANGED <<activeCluster, activeClusterConn, activceDbName, pc,
                       retErr>>
    /\ accesses' = FlushAccesses

\* database.Connector.GetDatabase: the registry's handle for the name, or an error
GetDatabase(clusterName) == {[err |-> FALSE, conn |-> Handle(clusterName)],
                             [err |-> TRUE, conn |-> NilConn]}

\* the line completes the buffer and a cluster is active (lines 301-321): the
\* joined text is saved to history and split, and the connection is opened
\* if it is not yet
FlushStart ==
    /\ UNCHANGED <<killVars, fnVars, sqlVars>>
    /\ \E l \in TrimmedLines :
        /\ NotBuiltin(l)
        /\ ~IsCommandLine(l, inputBuffer)
        /\ EndsWithTerminator(l)
        /\ ~NoActiveCluster(activeCluster)
        /\ Typed(l, "sql")
        /\ inputBuffer' = Append(inputBuffer, l)
        /\ calls' = <<>> /\ out' = <<>>
        /\ LET fullInput == JoinSpace(Append(inputBuffer, l))
               split     == splitStringWithDelimiter(fullInput)
           IN
           \/ /\ saved' = <<>>
              /\ pc' = "returned"
              /\ retErr' = "save_history"
              /\ dispErr' = {}
              /\ NoGroups
              /\ accesses' = FlushAccesses
              /\ UNCHANGED activeClusterConn
           \/ /\ saved' = <<fullInput>>
              /\ IF ~split.found
                 THEN /\ pc' = "prompt"
                      /\ retErr' = retErr
                      /\ dispErr' = {}
                      /\ NoGroups
                      /\ accesses' = FlushAccesses
                      /\ UNCHANGED activeClusterConn
                 ELSE IF activeClusterConn # NilConn
                 THEN /\ pc' = "dispatch"
                      /\ retErr' = retErr
                      /\ dispErr' = {}
                      /\ groups' = split.groups
                      /\ gidx' = 1
                      /\ accesses' = FlushAccesses \cup ConnAccess("use")
                      /\ UNCHANGED activeClusterConn
                 ELSE \E r \in GetDatabase(activeCluster) :
                      IF r.err
                      THEN /\ pc' = "returned"
                           /\ retErr' = "get_database"
                           /\ dispErr' = {"registry"}
                           /\ NoGroups
                           /\ accesses' = FlushAccesses \cup ConnAccess("use")
                           /\ UNCHANGED activeClusterConn
                      ELSE /\ pc' = "dispatch"
                           /\ retErr' = retErr
                           /\ dispErr' = {}
                           /\ activeClusterConn' = r.conn
                           /\ accesses' = FlushAccesses \cup ConnAccess("use")
                                             \cup ConnAccess("mutate")
                           /\ groups' = split.groups
                           /\ gidx' = 1
        /\ UNCHANGED <<activeCluster, activceDbName>>

\* a range loop left after its first group
NextGroup_Abort(buffer) ==
    /\ pc' = "prompt"
    /\ inputBuffer' = <<>>
    /\ gidx' = gidx + 1

\* the range loop moves on: to the next group, or past the last one, where the
\* buffer is cleared (line 385) and the prompt is shown again
NextGroup(buffer) ==
    IF gidx = Len(groups)
    THEN /\ pc' = "prompt"
         /\ inputBuffer' = <<>>
         /\ gidx' = gidx + 1
    ELSE /\ pc' = "dispatch"
         /\ inputBuffer' = buffer
         /\ gidx' = gidx + 1

\* the group the range loop is at, and the words of its comment-free text
CurGroup == groups[gidx]
queryCmd == Fields(skipComments(CurGroup.Value))

AtGroup == pc = "dispatch" /\ gidx \in 1..Len(groups)

\* a test of line 324 that no group passes
IsEmptyGroup_Never(g) == FALSE

\* line 324: g.Value == ""
IsEmptyGroup(g) == g.Value = <<>>

\* g.Value == "": "No query specified" (lines 324-327)
DispatchEmptyGroup ==
    /\ UNCHANGED <<killVars, fnVars, sqlVars>>
    /\ AtGroup
    /\ IsEmptyGroup(CurGroup)
    /\ out' = Append(out, "NO_QUERY_SPECIFIED")
    /\ NextGroup(inputBuffer)
    /\ UNCHANGED <<activeCluster, activeClusterConn, activceDbName, retErr, groups,
                   nread, line, bufWasEmpty, path, calls, saved, dispErr>>
    /\ UNCHANGED accesses

\* queryCmd[0] on a group without any word (line 329): index out of range
DispatchNoToken ==
    /\ UNCHANGED <<killVars, fnVars, sqlVars>>
    /\ AtGroup
    /\ ~IsEmptyGroup(CurGroup)
    /\ queryCmd = <<>>
    /\ pc' = "panicked"
    /\ UNCHANGED <<inputBuffer, activeCluster, activeClusterConn, activceDbName,
                   retErr, groups, gidx, nread, line, bufWasEmpty, path, calls,
                   out, saved, dispErr>>
    /\ UNCHANGED accesses

\* a USE group (lines 338-352): ExecContext, then the schema name is taken from
\* queryCmd[1]
DispatchUse ==
    /\ UNCHANGED <<killVars, fnVars, sqlVars>>
    /\ AtGroup
    /\ ~IsEmptyGroup(CurGroup)
    /\ queryCmd # <<>>
    /\ EqualFold(queryCmd[1], allowedUseQueryCommand)
    /\ calls' = Append(calls, [op |-> "ExecContext", text |-> CurGroup.Value,
                               conn |-> activeClusterConn, group |-> gidx])
    /\ \/ /\ out' = Append(out, "QUERY_FAILED")
          /\ dispErr' = dispErr \cup {"execute"}
          /\ NextGroup(<<>>)
          /\ accesses' = accesses \cup ConnAccess("use")
          /\ UNCHANGED activceDbName
       \/ /\ Len(queryCmd) >= 2
          /\ activceDbName' = SetDatabaseName(Session, Trim(queryCmd[2], ";")).db
          /\ accesses' = accesses \cup ConnAccess("use") \cup
                           {Access("activceDbName", "mutate", SetDatabaseNameLock)}
          /\ out' = Append(out, "DATABASE_CHANGED")
          /\ dispErr' = dispErr
          /\ NextGroup(<<>>)
       \/ /\ Len(queryCmd) < 2
          /\ pc' = "panicked"
          /\ accesses' = accesses \cup ConnAccess("use")
          /\ UNCHANGED <<inputBuffer, gidx, out, dispErr, activceDbName>>
    /\ UNCHANGED <<activeCluster, activeClusterConn, retErr, groups, nread, line,
                   bufWasEmpty, path, saved>>

\* a SELECT, SHOW or EXPLAIN group (lines 357-377): GeneralQuery and the rendering
DispatchQuery ==
    /\ UNCHANGED <<killVars, fnVars, sqlVars>>
    /\ AtGroup
    /\ ~IsEmptyGroup(CurGroup)
    /\ queryCmd # <<>>
    /\ IsAllowed(queryCmd[1])
    /\ ~EqualFold(queryCmd[1], allowedUseQueryCommand)
    /\ calls' = Append(calls, [op |-> "GeneralQuery", text |-> CurGroup.Value,
                               conn |-> activeClusterConn, group |-> gidx])
    /\ \/ /\ out' = Append(out, "QUERY_FAILED")
          /\ dispErr' = dispErr \cup {"query"}
          /\ NextGroup(<<>>)
       \/ /\ out' = Append(out, "FORMAT_ERROR")
          /\ dispErr' = dispErr
          /\ NextGroup(<<>>)
       \/ /\ out' = Append(out, IF CurGroup.Delimiter = slashG
                                THEN "RESULT_VERTICAL" ELSE "RESULT_TABLE")
          /\ dispErr' = dispErr
          /\ NextGroup(inputBuffer)
    /\ UNCHANGED <<activeCluster, activeClusterConn, activceDbName, retErr, groups,
                   nread, line, bufWasEmpty, path, saved>>
    /\ accesses' = accesses \cup ConnAccess("use")

\* any other leading token (lines 378-380): the group is refused
DispatchReject ==
    /\ UNCHANGED <<killVars, fnVars, sqlVars>>
    /\ AtGroup
    /\ ~IsEmptyGroup(CurGroup)
    /\ queryCmd # <<>>
    /\ ~IsAllowed(queryCmd[1])
    /\ out' = Append(out, "NOT_ALLOWED")
    /\ NextGroup(inputBuffer)
    /\ UNCHANGED <<activeCluster, activeClusterConn, activceDbName, retErr, groups,
                   nread, line, bufWasEmpty, path, calls, saved, dispErr>>
    /\ UNCHANGED accesses

NextRun ==
    \/ ReadlineError
    \/ EmptyLine
    \/ ExitLine
    \/ ClearLine
    \/ HelpLine
    \/ CommandExec
    \/ BufferLine
    \/ FlushNoCluster
    \/ FlushStart
    \/ DispatchEmptyGroup
    \/ DispatchNoToken
    \/ DispatchUse
    \/ DispatchQuery
    \/ DispatchReject

(***************************************************************************)
(* The session termination engine: GenerateKillSessionSqlBySqlDigest and   *)
(* GenerateKillSessionSqlByUsername (model/kill/query.go).  The two differ *)
(* only in the text of the discovery query.                                *)
(***************************************************************************)
\* the live sessions a discovery query may return
MaxSessions == 2
\* the largest concurrency limit tried (the limits are -1..MaxConcurrency)
MaxConcurrency == 2
\* number of rounds followed
MaxRounds == 2
\* the width of the atomic counter sessionCounts (atomic.Uint64 in the code; the
\* model counts modulo 2^16, the model checker's integers being 32 bits wide)
CounterModulus == 65536

Sessions == 1..MaxSessions

RECURSIVE SortedSeq(_)
SortedSeq(S) ==
    IF S = {} THEN <<>>
    ELSE LET m == CHOOSE x \in S : \A y \in S : x <= y IN
         <<m>> \o SortedSeq(S \ {m})

\* the result sets of a discovery query
Discoverable == {SortedSeq(S) : S \in SUBSET Sessions}

Range(q) == {q[i] : i \in 1..Len(q)}

\* the kill calls in flight: goroutines inside db.ExecContext
InFlight == {s \in Sessions : wstate[s] = "calling"}

\* cancel(): the function's context is cancelled unless it is done already
Cancel(c) == IF c = "live" THEN "canceled" ELSE c

\* a decrement by two
Decrement_Twice(n) == (n + CounterModulus - 2) % CounterModulus

\* sessionCounts.Add(^uint64(0))
Decrement(n) == (n + CounterModulus - 1) % CounterModulus

\* g.Go without the semaphore
SemHasRoom_Unlimited(held, limit) == TRUE

\* errgroup.Group.Go may start a goroutine: SetLimit(n) with n < 0 sets no limit,
\* otherwise a token of the semaphore of capacity n must be free
SemHasRoom(held, limit) == limit < 0 \/ held < limit

\* g.Wait that does not wait for the goroutines
WaitDone_Early(ws, res) == TRUE

\* errgroup.Group.Wait returns: every goroutine started by Go has finished
WaitDone(ws, res) == \A s \in Range(res) : ws[s] \in {"ok", "fail"}

\* the round goroutine started before the checks of lines 39-51
RoundLoopAfter_Always(outcome) == "loop"

\* lines 39-83: the round goroutine is started only past the three checks
RoundLoopAfter(outcome) == IF outcome = "ok" THEN "loop" ELSE "idle"

InitKill ==
    /\ kpc = "start"
    /\ kret = "none"
    /\ duration \in {0, 1}
    /\ concurrency \in -1..MaxConcurrency
    /\ parentCtx = "live"
    /\ ctx = "live"
    /\ sig = FALSE
    /\ stopLog = "none"
    /\ gpc = "idle"
    /\ round = 0
    /\ sessionCounts = 0
    /\ results = <<>>
    /\ next = 1
    /\ wstate = [s \in Sessions |-> "none"]
    /\ sem = 0
    /\ gErr = FALSE
    /\ nDiscovery = 0
    /\ nKill = 0
    /\ failed = {}

\* lines 38-51: the connection, the capability query and its check; then the
\* contexts are made and the round goroutine is started (lines 67-83)
KillPrecheck ==
    /\ UNCHANGED <<runVars, fnVars, sqlVars>>
    /\ kpc = "start"
    /\ \E outcome \in {"conn_err", "query_err", "precondition_err", "ok"} :
        /\ kpc' = IF outcome = "ok" THEN "select" ELSE "returned"
        /\ kret' = IF outcome = "ok" THEN kret ELSE outcome
        /\ gpc' = RoundLoopAfter(outcome)
    /\ UNCHANGED <<duration, concurrency, parentCtx, ctx, sig, stopLog, round, sessionCounts,
                   results, next, wstate, sem, gErr, nDiscovery, nKill, failed>>

\* a deadline that never passes
HasDeadline_Never(d) == FALSE

\* a deadline whatever the duration
HasDeadline_Always(d) == TRUE

\* line 70: the context gets a deadline only for a duration above 0
HasDeadline(d) == d > 0

\* context.WithTimeout: the deadline passes
DeadlineFires ==
    /\ UNCHANGED <<runVars, fnVars, sqlVars>>
    /\ kpc = "select"
    /\ HasDeadline(duration)
    /\ ctx = "live"
    /\ ctx' = "deadline"
    /\ UNCHANGED <<kpc, kret, duration, concurrency, parentCtx, sig, stopLog, gpc, round,
                   sessionCounts, results, next, wstate, sem, gErr, nDiscovery,
                   nKill, failed>>

\* the caller cancels the context it passed in: the contexts derived from it
\* (lines 67 and 72) are done, unless they are already
CallerCancel ==
    /\ UNCHANGED <<runVars, fnVars, sqlVars>>
    /\ kpc = "select"
    /\ parentCtx = "live"
    /\ parentCtx' = "canceled"
    /\ ctx' = Cancel(ctx)
    /\ UNCHANGED <<kpc, kret, duration, concurrency, sig, stopLog, gpc, round,
                   sessionCounts, results, next, wstate, sem, gErr, nDiscovery,
                   nKill, failed>>

\* os.Interrupt or SIGTERM is delivered to sigChan
SignalArrives ==
    /\ UNCHANGED <<runVars, fnVars, sqlVars>>
    /\ kpc = "select"
    /\ ~sig
    /\ sig' = TRUE
    /\ UNCHANGED <<kpc, kret, duration, concurrency, parentCtx, ctx, stopLog, gpc, round,
                   sessionCounts, results, next, wstate, sem, gErr, nDiscovery,
                   nKill, failed>>

\* lines 138-149: the final select, then return nil (the deferred cancel runs)
MainSelect ==
    /\ UNCHANGED <<runVars, fnVars, sqlVars>>
    /\ kpc = "select"
    /\ \/ /\ sig
          /\ stopLog' = "signal"
       \/ /\ ctx = "deadline"
          /\ stopLog' = "timeout"
       \/ /\ ctx = "canceled"
          /\ stopLog' = "cancel"
    /\ ctx' = Cancel(ctx)
    /\ kpc' = "returned"
    /\ kret' = "nil"
    /\ UNCHANGED <<duration, concurrency, parentCtx, sig, gpc, round, sessionCounts, results,
                   next, wstate, sem, gErr, nDiscovery, nKill, failed>>

\* lines 85-90: the head of the round loop: return when the context is done,
\* otherwise issue the discovery query
RoundSelect ==
    /\ UNCHANGED <<runVars, fnVars, sqlVars>>
    /\ gpc = "loop"
    /\ IF ctx # "live"
       THEN /\ gpc' = "exit"
            /\ UNCHANGED nDiscovery
       ELSE /\ round < MaxRounds
            /\ gpc' = "discover"
            /\ nDiscovery' = nDiscovery + 1
    /\ UNCHANGED <<kpc, kret, duration, concurrency, parentCtx, ctx, sig, stopLog, round,
                   sessionCounts, results, next, wstate, sem, gErr, nKill, failed>>

\* sessions that stay on the list from one round to the next
SessionsOfRound_Carried(previous, discovered) ==
    SortedSeq(Range(previous) \cup Range(discovered))

\* lines 91 and 111: the sessions of a round are the rows of its own query
SessionsOfRound(previous, discovered) == discovered

\* lines 90-110: the discovery query returns: an error cancels and ends the
\* goroutine; no match sleeps; otherwise the counter is set and the errgroup made
DiscoverReturn ==
    /\ UNCHANGED <<runVars, fnVars, sqlVars>>
    /\ gpc = "discover"
    /\ \/ /\ failed' = failed \cup {"discovery"}
          /\ ctx' = Cancel(ctx)
          /\ gpc' = "exit"
          /\ UNCHANGED <<sessionCounts, results, next, wstate, sem, gErr>>
       \/ \E res \in Discoverable :
            /\ failed' = failed
            /\ ctx' = ctx
            /\ IF Len(res) = 0
               THEN /\ gpc' = "sleep"
                    /\ UNCHANGED <<sessionCounts, results, next, wstate, sem, gErr>>
               ELSE /\ gpc' = "spawn"
                    /\ sessionCounts' = Len(res) % CounterModulus
                    /\ results' = SessionsOfRound(results, res)
                    /\ next' = 1
                    /\ wstate' = [s \in Sessions |-> "none"]
                    /\ sem' = 0
                    /\ gErr' = FALSE
    /\ UNCHANGED <<kpc, kret, duration, concurrency, parentCtx, sig, stopLog, round,
                   nDiscovery, nKill>>

\* lines 111-124: g.Go for the next result: it takes a token of the semaphore
\* and starts the goroutine; past the last result the loop reaches g.Wait
GoSpawn ==
    /\ UNCHANGED <<runVars, fnVars, sqlVars>>
    /\ gpc = "spawn"
    /\ next <= Len(results)
    /\ SemHasRoom(sem, concurrency)
    /\ sem' = sem + 1
    /\ wstate' = [wstate EXCEPT ![results[next]] = "spawned"]
    /\ next' = next + 1
    /\ gpc' = IF next = Len(results) THEN "wait" ELSE "spawn"
    /\ UNCHANGED <<kpc, kret, duration, concurrency, parentCtx, ctx, sig, stopLog, round,
                   sessionCounts, results, gErr, nDiscovery, nKill, failed>>

\* line 116: a started goroutine issues its kill call
KillCall ==
    /\ UNCHANGED <<runVars, fnVars, sqlVars>>
    /\ \E s \in Sessions :
        /\ wstate[s] = "spawned"
        /\ wstate' = [wstate EXCEPT ![s] = "calling"]
        /\ nKill' = nKill + 1
        /\ UNCHANGED <<kpc, kret, duration, concurrency, parentCtx, ctx, sig, stopLog, gpc,
                       round, sessionCounts, results, next, sem, gErr, nDiscovery,
                       failed>>

\* lines 116-122: the kill call returns: on success the counter is decremented;
\* on failure the errgroup records the first error and cancels gCtx; either
\* way the goroutine ends and gives its token back
KillReturn ==
    /\ UNCHANGED <<runVars, fnVars, sqlVars>>
    /\ \E s \in Sessions :
        /\ wstate[s] = "calling"
        /\ \/ /\ wstate' = [wstate EXCEPT ![s] = "ok"]
              /\ sessionCounts' = Decrement(sessionCounts)
              /\ UNCHANGED <<gErr, failed>>
           \/ /\ wstate' = [wstate EXCEPT ![s] = "fail"]
              /\ gErr' = TRUE
              /\ failed' = failed \cup {"kill"}
              /\ UNCHANGED sessionCounts
        /\ sem' = sem - 1
        /\ UNCHANGED <<kpc, kret, duration, concurrency, parentCtx, ctx, sig, stopLog, gpc,
                       round, results, next, nDiscovery, nKill>>

\* a round loop that goes on after a failed kill
AfterWait_Continue(err) == "sleep"

\* lines 125-133: with an error from g.Wait the goroutine returns, without
\* one it sleeps the interval
AfterWait(err) == IF err THEN "exit" ELSE "sleep"

\* lines 125-129: g.Wait returns: with an error the context is cancelled and the
\* goroutine ends, without one the round is completed and the interval slept
WaitReturn ==
    /\ UNCHANGED <<runVars, fnVars, sqlVars>>
    /\ gpc = "wait"
    /\ WaitDone(wstate, results)
    /\ ctx' = IF gErr THEN Cancel(ctx) ELSE ctx
    /\ gpc' = AfterWait(gErr)
    /\ UNCHANGED <<kpc, kret, duration, concurrency, parentCtx, sig, stopLog, round,
                   sessionCounts, results, next, wstate, sem, gErr, nDiscovery,
                   nKill, failed>>

\* a round number that stays
NextRound_Same(r) == r

\* lines 104 and 133: round++
NextRound(r) == r + 1

\* lines 102-104 and 132-133: time.Sleep ends, round++
SleepDone ==
    /\ UNCHANGED <<runVars, fnVars, sqlVars>>
    /\ gpc = "sleep"
    /\ round' = NextRound(round)
    /\ gpc' = "loop"
    /\ UNCHANGED <<kpc, kret, duration, concurrency, parentCtx, ctx, sig, stopLog,
                   sessionCounts, results, next, wstate, sem, gErr, nDiscovery,
                   nKill, failed>>

NextKill ==
    \/ KillPrecheck
    \/ DeadlineFires
    \/ CallerCancel
    \/ SignalArrives
    \/ MainSelect
    \/ RoundSelect
    \/ DiscoverReturn
    \/ GoSpawn
    \/ KillCall
    \/ KillReturn
    \/ WaitReturn
    \/ SleepDone

(***************************************************************************)
(* SqlQueryModel: NewSqlQueryModel, Init and Update (model/sql/sql.go),    *)
(* run by a program that gives Update one message at a time.               *)
(***************************************************************************)
\* messages followed in one run
MaxMsgs == 5
\* submissions followed in one run
MaxSubmits == 3
\* the frames of spinner.Line
SpinnerFrames == 4

BubblesModeQuering == "Quering"
BubblesModeQueried == "Queried"

\* the operations with a data-submission command, and one without
SubmitCommands == {"DISPLAY", "QUERY", "DELETE"}
Commands == SubmitCommands \cup {"OTHER"}

\* NewSqlQueryModel, and the program started
InitSql ==
    /\ spc = "running"
    /\ command \in Commands
    /\ mode = BubblesModeQuering
    /\ sqlCtx = "live"
    /\ frame = 0
    /\ hasMsgs = FALSE
    /\ hasError = FALSE
    /\ submitted = 0
    /\ pending = 0
    /\ nmsgs = 0

\* the program gives Update a message until it has handled the quit message
Delivers ==
    /\ spc \in {"running", "quitting"}
    /\ nmsgs < MaxMsgs
    /\ nmsgs' = nmsgs + 1

\* return m, tea.Quit
Quit(p) == IF p = "running" THEN "quitting" ELSE p

\* lines 91-95, tea.KeyCtrlC: the context is cancelled and the program quits
UpdateKeyCtrlC ==
    /\ UNCHANGED <<runVars, killVars, fnVars>>
    /\ Delivers
    /\ sqlCtx' = "canceled"
    /\ spc' = Quit(spc)
    /\ UNCHANGED <<command, mode, frame, hasMsgs, hasError, submitted, pending>>

\* lines 96-97: any other key: return m, nil
UpdateKeyOther ==
    /\ UNCHANGED <<runVars, killVars, fnVars>>
    /\ Delivers
    /\ UNCHANGED <<spc, command, mode, sqlCtx, frame, hasMsgs, hasError,
                   submitted, pending>>

\* lines 99-106: the message of a submission: the mode is Queried, the error or
\* the rows are kept, and the program quits
UpdateListResp ==
    /\ UNCHANGED <<runVars, killVars, fnVars>>
    /\ Delivers
    /\ pending > 0
    /\ pending' = pending - 1
    /\ mode' = BubblesModeQueried
    /\ \/ /\ hasError' = TRUE
          /\ hasMsgs' = hasMsgs
       \/ /\ hasMsgs' = TRUE
          /\ hasError' = hasError
    /\ spc' = Quit(spc)
    /\ UNCHANGED <<command, sqlCtx, frame, submitted>>

\* lines 107-109: a tick of the spinner: the next frame
UpdateTick ==
    /\ UNCHANGED <<runVars, killVars, fnVars>>
    /\ Delivers
    /\ frame' = (frame + 1) % SpinnerFrames
    /\ UNCHANGED <<spc, command, mode, sqlCtx, hasMsgs, hasError, submitted,
                   pending>>

\* lines 110-130: the default branch: the command of the model's operation is
\* returned in a batch; an operation without one quits
DefaultBranch ==
    IF command \in SubmitCommands
    THEN /\ submitted < MaxSubmits
         /\ submitted' = submitted + 1
         /\ pending' = pending + 1
         /\ spc' = spc
    ELSE /\ spc' = Quit(spc)
         /\ UNCHANGED <<submitted, pending>>

\* a message of any other type, e.g. the size of the window, at the start of
\* the program and at every resize
UpdateOtherMsg ==
    /\ UNCHANGED <<runVars, killVars, fnVars>>
    /\ Delivers
    /\ DefaultBranch
    /\ UNCHANGED <<command, mode, sqlCtx, frame, hasMsgs, hasError>>

\* lines 281-284: submitBindDeleteData returns the bare error of GetDatabase:
\* the message is no listRespMsg and takes the default branch
UpdateDeleteConnError ==
    /\ UNCHANGED <<runVars, killVars, fnVars>>
    /\ Delivers
    /\ command = "DELETE"
    /\ pending > 0
    /\ submitted < MaxSubmits
    /\ submitted' = submitted + 1
    /\ pending' = pending
    /\ UNCHANGED <<spc, command, mode, sqlCtx, frame, hasMsgs, hasError>>

\* the program handles the quit message and ends
QuitHandled ==
    /\ UNCHANGED <<runVars, killVars, fnVars>>
    /\ spc = "quitting"
    /\ spc' = "quit"
    /\ UNCHANGED <<command, mode, sqlCtx, frame, hasMsgs, hasError, submitted,
                   pending, nmsgs>>

NextSql ==
    \/ UpdateKeyCtrlC
    \/ UpdateKeyOther
    \/ UpdateListResp
    \/ UpdateTick
    \/ UpdateOtherMsg
    \/ UpdateDeleteConnError
    \/ QuitHandled

(***************************************************************************)
(* Specifications.                                                         *)
(***************************************************************************)
vars == <<runVars, killVars, fnVars, sqlVars>>

\* no SqlQueryModel is run
SqlIdle ==
    /\ spc = "idle"
    /\ command = "DISPLAY"
    /\ mode = BubblesModeQuering
    /\ sqlCtx = "live"
    /\ frame = 0
    /\ hasMsgs = FALSE
    /\ hasError = FALSE
    /\ submitted = 0
    /\ pending = 0
    /\ nmsgs = 0

\* no function application under way
FnIdle ==
    /\ fnInput = <<>>
    /\ fnStage = "idle"
    /\ fnGroups = [groups |-> <<>>, found |-> FALSE]
    /\ fnText = <<>>

\* the termination engine not invoked
KillIdle ==
    /\ InitKill
    /\ duration = 0
    /\ concurrency = 1

\* the console at its first prompt, no cluster given
RunIdle ==
    /\ InitRun
    /\ activeCluster = <<>>

\* the interactive dispatch engine
Init ==
    /\ InitRun
    /\ KillIdle
    /\ FnIdle
    /\ SqlIdle

Spec == Init /\ [][NextRun]_vars

\* one invocation of the termination engine
KillInit ==
    /\ RunIdle
    /\ InitKill
    /\ FnIdle
    /\ SqlIdle

KillSpec == KillInit /\ [][NextKill]_vars

\* ---------------------------------------------------------------------
\* The Delimiter Splitter and the Comment Stripper as functions of a text
\* ---------------------------------------------------------------------

\* longest text, in tokens
MaxTokens == 4

slashStar == <<"/", "*">>
starSlash == <<"*", "/">>
dashDash  == <<"-", "-">>
newline   == <<"\n">>

Tokens == {<<"a">>, sp, semi, slashG, dashDash, slashStar, starSlash, newline}

RECURSIVE Flatten(_)
Flatten(ts) == IF ts = <<>> THEN <<>> ELSE Head(ts) \o Flatten(Tail(ts))

\* the texts the two functions are applied to
Texts == {Flatten(ts) : ts \in UNION {[1..n -> Tokens] : n \in 0..MaxTokens}}

FnInit ==
    /\ RunIdle
    /\ KillIdle
    /\ SqlIdle
    /\ fnInput \in Texts
    /\ fnStage = "input"
    /\ fnGroups = [groups |-> <<>>, found |-> FALSE]
    /\ fnText = <<>>

\* groups, found := splitStringWithDelimiter(fnInput, regex)
ApplySplit ==
    /\ UNCHANGED <<runVars, killVars, sqlVars>>
    /\ fnStage = "input"
    /\ fnStage' = "split"
    /\ fnGroups' = splitStringWithDelimiter(fnInput)
    /\ UNCHANGED <<fnInput, fnText>>

\* text := skipComments(fnInput)
ApplyStrip ==
    /\ UNCHANGED <<runVars, killVars, sqlVars>>
    /\ fnStage = "input"
    /\ fnStage' = "strip"
    /\ fnText' = skipComments(fnInput)
    /\ UNCHANGED <<fnInput, fnGroups>>

NextFn ==
    \/ ApplySplit
    \/ ApplyStrip

FnSpec == FnInit /\ [][NextFn]_vars

\* one run of the SqlQueryModel
SqlInit ==
    /\ RunIdle
    /\ KillIdle
    /\ FnIdle
    /\ InitSql

SqlSpec == SqlInit /\ [][NextSql]_vars

\* one invocation in which time passes (the deadline of a timeout context is
\* reached) and the calling goroutine, once its select has a ready case, runs
FairKillSpec ==
    /\ KillInit
    /\ [][NextKill]_vars
    /\ WF_vars(DeadlineFires)
    /\ WF_vars(MainSelect)

(***************************************************************************)
(* Properties of the dispatch engine (checked under Spec).                 *)
(***************************************************************************)
\* the leading words of a group after comment stripping
GroupWords(g) == Fields(skipComments(g.Value))

\* the group's leading word is one of SELECT, SHOW, USE, EXPLAIN in any case
LeadsWithAllowedVerb(g) ==
    /\ GroupWords(g) # <<>>
    /\ IsContainStringIgnoreCase(GroupWords(g)[1], allowedQueryCommands)

\* the groups of the current flush the range loop has gone past
PastGroups == {j \in 1..Len(groups) : j < gidx}

CountOf(q, x) == Cardinality({i \in 1..Len(q) : q[i] = x})

\* C1: every statement text handed to the connection (ExecContext or
\* GeneralQuery) is the text of a Statement Group whose leading token after
\* comment stripping is, in any letter case, SELECT, SHOW, USE or EXPLAIN; a
\* group with any other leading token is refused (one refusal is printed per
\* such group) and no call is made for it.
C1_AllowListSafety ==
    /\ \A i \in 1..Len(calls) :
         /\ calls[i].group \in 1..Len(groups)
         /\ calls[i].text = groups[calls[i].group].Value
         /\ LeadsWithAllowedVerb(groups[calls[i].group])
    /\ CountOf(out, "NOT_ALLOWED") =
         Cardinality({j \in PastGroups :
                         /\ GroupWords(groups[j]) # <<>>
                         /\ ~LeadsWithAllowedVerb(groups[j])})

\* C1 witness: a flush in which one group reached the connection and another
\* one was refused
C1_Witness ==
    /\ calls # <<>>
    /\ CountOf(out, "NOT_ALLOWED") > 0

\* the current line was typed at an empty buffer and its first word is neither
\* a command name nor an allowed SQL verb (exit, quit, clear and help are the
\* console's own commands, handled before the command tree is consulted)
UnknownFirstWord ==
    /\ path \notin {"none", "readerr", "empty"}
    /\ bufWasEmpty
    /\ NotBuiltin(line)
    /\ ~FirstWordIsCommand[line]
    /\ ~FirstWordIsAllowed[line]

\* C2: a line typed while the buffer is empty whose first word is neither a
\* recognized command name nor an allowed SQL verb is handled as a command: the
\* command tree rejects it with an error, the buffer stays empty and no call is
\* made on the connection.
C2_UnknownWordIsCommand ==
    UnknownFirstWord =>
        /\ path = "command"
        /\ out = <<"CMD_ERROR">>
        /\ pc # "returned" \/ retErr = "save_history"
        /\ inputBuffer = <<>>
        /\ calls = <<>>
        /\ groups = <<>>

\* the current line completed the buffer while no cluster was active
FlushedWithoutCluster ==
    /\ path = "sql"
    /\ LineEndsWithTerminator[line]
    /\ activeCluster = <<>>

\* C3: when a buffered line ends with a terminator and the active cluster name
\* is empty, the error is reported, the buffer is emptied, no connection is
\* opened, no group is dispatched, no call is made on the connection, and the
\* loop is back at the prompt with an empty buffer.
C3_NoClusterNoDispatch ==
    FlushedWithoutCluster =>
        /\ out = <<"ERR_CLUSTER_NAME_EMPTY">>
        /\ inputBuffer = <<>>
        /\ pc = "prompt"
        /\ retErr = "none"
        /\ calls = <<>>
        /\ groups = <<>>
        /\ activeClusterConn = NilConn

\* C3 witness: a flush of two buffered lines was refused for lack of a cluster
C3_Witness ==
    /\ FlushedWithoutCluster
    /\ ~bufWasEmpty
    /\ out = <<"ERR_CLUSTER_NAME_EMPTY">>

\* C4: the Run loop never crashes, whatever the lines and whatever Execute and
\* Query return (a group of only whitespace or comments, USE without a schema).
C4_NeverPanics == pc # "panicked"

\* C5: a connection or execution error during dispatch (the registry does not
\* give the connection, Execute or Query fails) is reported, the buffer is
\* discarded and the loop goes on reading: once the flush is over the console
\* is at its prompt with an empty buffer, and Run has not returned.
C5_DispatchErrorKeepsLoop ==
    (dispErr # {} /\ pc # "dispatch") =>
        /\ pc = "prompt"
        /\ retErr = "none"
        /\ inputBuffer = <<>>
        /\ CountOf(out, "QUERY_FAILED") + CountOf(out, "CONNECTION_FAILED")
             >= Cardinality(dispErr)

\* C6: Run returns a non-nil error only for an unrecoverable local fault
\* (history cannot be saved, the screen cannot be cleared); no content of a
\* line, a command line the shell-word parser cannot parse included, makes
\* Run return.
C6_ReturnsOnlyOnLocalFault ==
    pc = "returned" => retErr \in {"nil", "save_history", "clear_screen"}

\* C14: every mutation of the Session Context (cluster name, schema name,
\* connection handle) is made with l.mutex held in write mode.
C14_MutationsUnderWriteLock ==
    \A a \in accesses : a.kind = "mutate" => a.lock = Lock

\* C15: every use of the active cluster name or of the connection handle by
\* the dispatcher is made with l.mutex held on the reader side, so that none
\* proceeds while a login/logout mutation is in flight.
C15_UsesUnderReadLock ==
    \A a \in accesses : a.kind = "use" => a.lock = RLock

\* C17: once the execution of a group has failed with a connection/execution
\* error (Execute for USE, Query for SELECT/SHOW/EXPLAIN), no later group of
\* the same flush is dispatched, and the buffer is cleared.
C17_FailureAbortsFlush ==
    [][(pc = "dispatch" /\ dispErr \cap {"execute", "query"} # {})
          => (calls' = calls /\ inputBuffer' = <<>>)]_vars

\* a flush ends at the prompt only when the range loop is past every group
FlushRunsToTheEnd == (pc = "prompt" /\ groups # <<>>) => gidx = Len(groups) + 1

\* the calls made for group j
CallsOf(j) == {i \in 1..Len(calls) : calls[i].group = j}

\* C18: a group refused for its verb does not end the flush: every later
\* group is still examined and, if its verb is allowed, dispatched, the calls
\* being made in the order of the groups.
C18_RejectionDoesNotAbort ==
    /\ FlushRunsToTheEnd
    /\ \A j \in PastGroups :
         /\ Len(out) >= j
         /\ out[j] = "NOT_ALLOWED" => CallsOf(j) = {}
         /\ LeadsWithAllowedVerb(groups[j]) => Cardinality(CallsOf(j)) = 1
    /\ \A i, k \in 1..Len(calls) : i < k => calls[i].group < calls[k].group

\* C18 witness: a flush is over in which a group was refused and a later one
\* was dispatched
C18_Witness ==
    /\ pc = "prompt"
    /\ \E j \in 1..Len(out) :
         /\ out[j] = "NOT_ALLOWED"
         /\ \E i \in 1..Len(calls) : calls[i].group > j

\* the schema named by a USE group: the text after the verb
SchemaName(g) == TrimSpace(Drop(TrimSpace(g.Value), Len(allowedUseQueryCommand) + 1))

\* the groups of this flush whose USE was executed successfully
ChangedGroups == {j \in 1..Len(out) : out[j] = "DATABASE_CHANGED"}

\* C19: a successfully executed USE group sets the active schema name to the
\* schema it names, goes through ExecContext only (never GeneralQuery, nothing
\* is rendered for it), and the range loop then moves on to the next group.
C19_UseSetsSchema ==
    /\ \A j \in ChangedGroups :
         /\ j \in 1..Len(groups)
         /\ \A i \in CallsOf(j) :
              calls[i].op = "ExecContext" /\ calls[i].text = groups[j].Value
         /\ Cardinality(CallsOf(j)) = 1
         /\ gidx > j
         /\ (\A k \in ChangedGroups : k <= j) => activceDbName = SchemaName(groups[j])
    /\ ChangedGroups # {} => FlushRunsToTheEnd

\* C19 witness: USE d succeeded and the next group of the flush was queried
C19_Witness ==
    /\ out = <<"DATABASE_CHANGED", "RESULT_TABLE">>
    /\ activceDbName = <<"d">>
    /\ Len(calls) = 2
    /\ calls[2].op = "GeneralQuery"

\* C20: a group whose value is empty is reported as "No query specified", is
\* not sent to the connection and does not stop the flush: the run does not
\* crash on it and the groups after it are dispatched.
C20_EmptyGroupSkipped ==
    /\ \A j \in PastGroups :
         groups[j].Value = <<>> =>
            /\ Len(out) >= j
            /\ out[j] = "NO_QUERY_SPECIFIED"
            /\ CallsOf(j) = {}
    /\ \A j \in 1..Len(out) :
         out[j] = "NO_QUERY_SPECIFIED" => groups[j].Value = <<>>
    /\ pc = "panicked" => groups[gidx].Value # <<>>
    /\ FlushRunsToTheEnd

\* C20 witness: a group after an empty one was dispatched
C20_Witness ==
    /\ pc = "prompt"
    /\ \E j \in 1..Len(groups) :
         /\ groups[j].Value = <<>>
         /\ \E i \in 1..Len(calls) : calls[i].group > j

(***************************************************************************)
(* Properties of the termination engine (checked under KillSpec).          *)
(***************************************************************************)
\* C7: if a round's discovery query fails, or a kill call fails, the
\* invocation returns that failure to its caller as a non-nil error.
C7_FailureIsReturned ==
    [][(kpc = "select" /\ kpc' = "returned" /\ failed # {}) => kret' # "nil"]_vars

\* C8: when the capability query returns no row the invocation returns the
\* precondition error and no round runs: the round goroutine is never started,
\* no discovery query and no kill call is ever issued.
C8_NoCapabilityNoRound ==
    kret = "precondition_err" =>
        /\ kpc = "returned"
        /\ gpc = "idle"
        /\ nDiscovery = 0
        /\ nKill = 0
        /\ InFlight = {}

\* C8 witness: the invocation returned the precondition error
C8_Witness == kret = "precondition_err" /\ kpc = "returned"

\* C9: for any limit >= 1, at every instant the number of kill calls in flight
\* is at most the concurrency limit, whatever the number of sessions found.
C9_InFlightWithinLimit ==
    concurrency >= 1 => Cardinality(InFlight) <= concurrency

\* C9 witness: more sessions were found than the limit lets run, the pool is
\* full and every one of its goroutines is inside its kill call
C9_Witness ==
    /\ concurrency >= 1
    /\ Len(results) > concurrency
    /\ gpc = "spawn"
    /\ Cardinality(InFlight) = concurrency

\* C10: the discovery query of the next round is never in progress while a kill
\* call of the round before is in flight: it starts only when every
\* termination of that round has finished or failed.
C10_RoundsSerialized ==
    gpc = "discover" =>
        /\ InFlight = {}
        /\ \A s \in Range(results) : wstate[s] \in {"ok", "fail"}

\* C10 witness: the discovery of a later round is in progress after a round
\* that killed sessions
C10_Witness ==
    /\ gpc = "discover"
    /\ round >= 1
    /\ \E s \in Range(results) : wstate[s] = "ok"

\* nothing has disturbed the invocation: no signal, no cancellation by the
\* caller, no failed discovery or kill call
Undisturbed == ~sig /\ parentCtx = "live" /\ failed = {}

\* C11: with a duration above 0 the engine eventually returns to its caller
\* once the deadline has elapsed, logging the timeout and returning no error
\* (unless a signal, a cancellation or a failure stops it first); the timeout
\* is never logged before the deadline has passed.
C11_TimeoutReturnsNil ==
    /\ [](stopLog = "timeout" => (ctx = "deadline" /\ kret = "nil"))
    /\ (kpc = "select" /\ duration > 0 /\ Undisturbed)
          ~> (kpc = "returned" /\ (stopLog = "timeout" \/ ~Undisturbed))

\* C11 witness: two rounds found no session, the deadline passed and the
\* invocation returned nil with the timeout logged
C11_Witness ==
    /\ duration > 0
    /\ kpc = "returned"
    /\ kret = "nil"
    /\ stopLog = "timeout"
    /\ round >= 2
    /\ nKill = 0
    /\ Undisturbed

\* C12: with duration 0, as long as no discovery or kill call fails and no
\* signal or cancellation by the caller arrives, the engine does not return
\* and its round loop does not stop: the context stays live and the loop goes
\* on to the next round.
C12_PollsUntilCancelled ==
    (duration = 0 /\ kpc # "start" /\ kret \in {"none", "nil"} /\ Undisturbed) =>
        /\ kpc = "select"
        /\ ctx = "live"
        /\ gpc \in {"loop", "discover", "spawn", "wait", "sleep"}

\* C12 witness: after a round that killed every match and a round that found
\* none, the undisturbed engine is in the discovery of another round
C12_Witness ==
    /\ duration = 0
    /\ Undisturbed
    /\ gpc = "discover"
    /\ round >= 1
    /\ nKill > 0
    /\ sessionCounts = 0

\* C13: at the moment the invocation has returned its round loop has stopped
\* and no discovery query or kill call of it is in progress or still to start.
C13_ReturnsAfterEngineStops ==
    kpc = "returned" =>
        /\ gpc \in {"idle", "exit"}
        /\ \A s \in Sessions : wstate[s] \notin {"spawned", "calling"}

\* the successful kills of the current round
Killed == {s \in Range(results) : wstate[s] = "ok"}

\* C16: the counter is the number of sessions discovered less the successful
\* kills of the round, so that 0 <= remaining <= discovered: a failed kill
\* leaves it alone and it never wraps below zero.
C16_CounterWithinRound ==
    /\ sessionCounts = Len(results) - Cardinality(Killed)
    /\ 0 <= sessionCounts
    /\ sessionCounts <= Len(results)

\* C16 witness: in one round a kill has succeeded and another has failed
C16_Witness ==
    /\ \E s \in Range(results) : wstate[s] = "ok"
    /\ \E s \in Range(results) : wstate[s] = "fail"
    /\ sessionCounts = Len(results) - 1

\* ---------------------------------------------------------------------
\* Flushing, history and clear
\* ---------------------------------------------------------------------

\* C21: a line that is only ";", typed at an empty buffer with a cluster
\* active, is flushed as SQL: no group of it reaches the connection and the
\* "No query specified" notice is printed.
C21_SemicolonOnlyNotice ==
    (/\ line = semi
     /\ bufWasEmpty
     /\ path \notin {"none", "readerr", "empty"}
     /\ ~NoActiveCluster(activeCluster)
     /\ pc = "prompt")
    => /\ path = "sql"
       /\ calls = <<>>
       /\ CountOf(out, "NO_QUERY_SPECIFIED") >= 1

\* the groups of the joined text when its comments are removed before the split
GroupsOfStripped(text) == splitStringWithDelimiter(skipComments(text)).groups

\* C27: the groups of a flush are those of the joined text with its comments
\* removed, so that a terminator inside a comment ends no group.
C27_StrippedBeforeSplit ==
    (path = "sql" /\ pc = "dispatch" /\ saved # <<>>)
    => LET stripped == GroupsOfStripped(saved[1]) IN
       /\ Len(groups) = Len(stripped)
       /\ \A j \in 1..Len(groups) :
            /\ skipComments(groups[j].Value) = TrimSpace(stripped[j].Value)
            /\ groups[j].Delimiter = stripped[j].Delimiter

\* C28: while the loop goes on, the line of a clear, help or command branch
\* has been given to SaveHistory, and so has the joined text of every line
\* that ended a statement, whatever became of its execution.
C28_EveryLineSaved ==
    /\ (path \in {"clear", "help", "command"} /\ pc = "prompt")
       => saved = <<line>>
    /\ (path = "sql" /\ pc \in {"prompt", "dispatch"} /\ EndsWithTerminator(line))
       => saved # <<>>

C30_ClearEmptiesBuffer ==
    (path = "clear" /\ pc = "prompt") => inputBuffer = <<>>

\* ---------------------------------------------------------------------
\* The Delimiter Splitter and the Comment Stripper
\* ---------------------------------------------------------------------

\* the positions of a text at which a terminator starts
TerminatorStarts(s) ==
    {i \in 1..Len(s) : s[i] = ";" \/ HasPrefixAt(s, i, slashG)}

EndsInTerminator(s) == HasSuffix(s, semi) \/ HasSuffix(s, slashG)

\* the text after the last terminator of a text that has one
AfterLastTerminator(s) ==
    LET ends == {IF s[i] = ";" THEN i + 1 ELSE i + 2 : i \in TerminatorStarts(s)}
        last == CHOOSE e \in ends : \A f \in ends : f <= e
    IN SubSeq(s, last, Len(s))

\* the segments of a text that a terminator closes, in order
RECURSIVE SegmentsOf(_, _, _)
SegmentsOf(s, i, cur) ==
    IF i > Len(s) THEN <<>>
    ELSE IF s[i] = ";" THEN <<cur>> \o SegmentsOf(s, i + 1, <<>>)
    ELSE IF HasPrefixAt(s, i, slashG) THEN <<cur>> \o SegmentsOf(s, i + 2, <<>>)
    ELSE SegmentsOf(s, i + 1, Append(cur, s[i]))

NonEmptySegments(s) ==
    LET segs == SegmentsOf(s, 1, <<>>) IN
    Cardinality({k \in 1..Len(segs) : segs[k] # <<>>})

\* the texts of the groups, each followed by its terminator
RECURSIVE Rejoin(_)
Rejoin(gs) ==
    IF gs = <<>> THEN <<>>
    ELSE Head(gs).Value \o Head(gs).Delimiter \o Rejoin(Tail(gs))

NotSpace(c) == ~IsSpaceChar(c)

\* a text without its whitespace
RemoveSpaces(s) == SelectSeq(s, NotSpace)

\* C22: for a text that ends in a terminator the splitter returns one group
\* per terminator occurrence, in order: each group holds the text between the
\* previous terminator and its own (empty when two terminators are adjacent)
\* and carries the terminator that closed it.
C22_OneGroupPerTerminator ==
    (fnStage = "split" /\ EndsInTerminator(fnInput))
    => /\ fnGroups.found
       /\ Len(fnGroups.groups) = Cardinality(TerminatorStarts(fnInput))
       /\ \A j \in 1..Len(fnGroups.groups) :
            /\ fnGroups.groups[j].Delimiter \in {semi, slashG}
            /\ TerminatorStarts(fnGroups.groups[j].Value) = {}
       /\ Rejoin(fnGroups.groups) = fnInput

\* C22 witness: a text of three terminators, two of them adjacent and one a \G
C22_Witness ==
    /\ fnStage = "split"
    /\ EndsInTerminator(fnInput)
    /\ Len(fnGroups.groups) = 3
    /\ fnGroups.groups[1].Value # <<>>
    /\ \E j \in 2..3 : fnGroups.groups[j].Value = <<>>
    /\ \E j \in 1..3 : fnGroups.groups[j].Delimiter = slashG

\* C22 as stated: as many groups as there are non-empty segments
C22_OneGroupPerNonEmptySegment ==
    (fnStage = "split" /\ EndsInTerminator(fnInput))
    => Len(fnGroups.groups) = NonEmptySegments(fnInput)

\* C23: for a text with at least one terminator, the groups' texts, each
\* followed by its terminator, are the text again but for whitespace.
C23_RoundTrip ==
    (fnStage = "split" /\ TerminatorStarts(fnInput) # {})
    => /\ fnGroups.found
       /\ RemoveSpaces(Rejoin(fnGroups.groups)) = RemoveSpaces(fnInput)

\* C23 witness: a split whose rejoined groups differ from the text in
\* whitespace only
C23_Witness ==
    /\ fnStage = "split"
    /\ fnGroups.found
    /\ Len(fnGroups.groups) >= 2
    /\ Rejoin(fnGroups.groups) # fnInput
    /\ RemoveSpaces(fnInput) # <<>>

\* C24: every group but the last carries ";" or "\G"; when text other than
\* whitespace follows the last terminator the last group is that text,
\* trimmed, with an empty terminator; otherwise the last group carries a
\* terminator too. A text without a terminator gives no group.
C24_RemainderIsLastGroup ==
    fnStage = "split"
    => IF TerminatorStarts(fnInput) = {}
       THEN fnGroups = [groups |-> <<>>, found |-> FALSE]
       ELSE LET gs   == fnGroups.groups
                n    == Len(gs)
                rest == TrimSpace(AfterLastTerminator(fnInput))
            IN /\ fnGroups.found
               /\ n >= 1
               /\ \A j \in 1..(n - 1) : gs[j].Delimiter \in {semi, slashG}
               /\ IF rest # <<>>
                  THEN gs[n] = [Value |-> rest, Delimiter |-> <<>>]
                  ELSE gs[n].Delimiter \in {semi, slashG}

\* C24 witness: the text after the last terminator came back as a group
C24_Witness ==
    /\ fnStage = "split"
    /\ Len(fnGroups.groups) >= 2
    /\ fnGroups.groups[Len(fnGroups.groups)].Delimiter = <<>>
    /\ fnGroups.groups[Len(fnGroups.groups)].Value # <<>>

\* C24 as stated: no group for the text after the last terminator
C24_NoRemainderGroup ==
    fnStage = "split"
    => \A j \in 1..Len(fnGroups.groups) :
         fnGroups.groups[j].Delimiter \in {semi, slashG}

\* a text with no "--" and no "/*"
CommentFree(s) == Index(s, dashDash) = 0 /\ Index(s, slashStar) = 0

\* C25: for a text with no comment the stripper returns the text, but for
\* the whitespace around it.
C25_NoOpOnCleanInput ==
    (fnStage = "strip" /\ CommentFree(fnInput))
    => fnText = TrimSpace(fnInput)

\* a complete block comment in a text
HasBlockComment(s) ==
    \E i \in 1..Len(s) : \E j \in (i + 2)..Len(s) :
        HasPrefixAt(s, i, slashStar) /\ HasPrefixAt(s, j, starSlash)

\* C26: what the stripper returns holds no comment: no "--" and no "/*"
\* with its closing "*/".
C26_OutputHasNoComment ==
    fnStage = "strip"
    => /\ Index(fnText, dashDash) = 0
       /\ ~HasBlockComment(fnText)

\* ---------------------------------------------------------------------
\* The rounds of the termination engine
\* ---------------------------------------------------------------------

\* C31: when a discovery query returns no row, no kill call is issued and the
\* counter keeps its value; while the interval is slept nothing is killed, and
\* the sleep ends at the head of the loop with the round number one higher.
C31_EmptyRoundSleeps ==
    [][/\ (gpc = "discover" /\ gpc' = "sleep")
          => /\ nKill' = nKill
             /\ sessionCounts' = sessionCounts
             /\ wstate' = wstate
             /\ round' = round
       /\ gpc = "sleep"
          => /\ InFlight = {}
             /\ nKill' = nKill
             /\ sessionCounts' = sessionCounts
             /\ gpc' # "sleep" => (gpc' = "loop" /\ round' = round + 1)]_vars

\* C31 witness: two rounds found no session; the loop is at its head again
C31_Witness ==
    /\ gpc = "loop"
    /\ round = 2
    /\ nDiscovery = 2
    /\ nKill = 0
    /\ failed = {}

\* C32: a failed kill cancels the round's shared context at once (the
\* errgroup holds its error); from then on no discovery query is started and
\* the round number stays: the round loop spawns and waits for what is left of
\* the round and then returns, with the function's context cancelled.
C32_KillFailureEndsEngine ==
    /\ [](("kill" \in failed)
          => /\ gErr
             /\ gpc \in {"spawn", "wait", "exit"}
             /\ gpc = "exit" => ctx # "live")
    /\ [][("kill" \in failed)
          => (nDiscovery' = nDiscovery /\ round' = round)]_vars

\* C32 witness: in the second round, which found two sessions, a kill failed;
\* the round loop and the invocation have returned
C32_Witness ==
    /\ "kill" \in failed
    /\ gpc = "exit"
    /\ round = 1
    /\ Len(results) = 2
    /\ kpc = "returned"

\* C33: a round that reaches its sleep had no failed kill: every session of
\* its own discovery was killed and no other session was touched, and the
\* counter is 0. A kill call is issued only for a session of the round's
\* discovery whose goroutine was started, and once: a session called in a
\* round is not called again before the next discovery.
C33_OneKillPerDiscovered ==
    /\ [](gpc = "sleep"
          => /\ sessionCounts = 0
             /\ \A s \in Sessions :
                  wstate[s] = IF s \in Range(results) THEN "ok" ELSE "none")
    /\ [][/\ \A s \in Sessions :
               /\ (wstate'[s] = "calling" /\ wstate[s] # "calling")
                  => /\ wstate[s] = "spawned"
                     /\ s \in Range(results)
                     /\ nKill' = nKill + 1
               /\ (wstate[s] \in {"calling", "ok", "fail"}
                   /\ wstate'[s] \in {"none", "spawned"}) => gpc = "discover"
          /\ nKill' # nKill
             => Cardinality({s \in Sessions : wstate'[s] # wstate[s]}) = 1]_vars

\* C33 witness: the first round killed both sessions, the second found and
\* killed session 2 only
C33_Witness ==
    /\ gpc = "sleep"
    /\ round = 1
    /\ results = <<2>>
    /\ wstate[2] = "ok"
    /\ wstate[1] = "none"
    /\ nKill = 3
    /\ concurrency >= 1
    /\ ctx = "live"

\* C37: with a concurrency limit of 0 no kill call is ever started; a round
\* that found a session stays in its first g.Go for ever, whatever happens to
\* the context; the invocation still returns once the deadline has passed,
\* the signal has arrived or the context is cancelled.
C37_LimitZeroBlocksRound ==
    /\ [](concurrency = 0
          => /\ nKill = 0
             /\ \A s \in Sessions : wstate[s] = "none"
             /\ gpc # "wait")
    /\ [][(concurrency = 0 /\ gpc = "spawn")
          => /\ gpc' = "spawn"
             /\ next' = 1
             /\ round' = round
             /\ nDiscovery' = nDiscovery]_vars
    /\ (concurrency = 0 /\ gpc = "spawn" /\ (sig \/ ctx # "live"))
          ~> (kpc = "returned" /\ kret = "nil" /\ gpc = "spawn")

\* C37 witness: the invocation has returned while the round is still in g.Go
C37_Witness ==
    /\ concurrency = 0
    /\ gpc = "spawn"
    /\ results # <<>>
    /\ kpc = "returned"
    /\ ctx # "live"

\* ---------------------------------------------------------------------
\* The buffer and the connection of the Session Context
\* ---------------------------------------------------------------------

\* the line just read starts with a command name or with a word that is not
\* an allowed verb
StartsLikeCommand(l) ==
    l # <<>> /\ (FirstWordIsCommand[l] \/ ~FirstWordIsAllowed[l])

\* the step read a line and put it at the end of the buffer; a line that ends
\* a statement with no cluster active is refused and the buffer dropped
ReadAsFragment ==
    /\ path' = "sql"
    /\ \/ inputBuffer' = Append(inputBuffer, line')
       \/ /\ EndsWithTerminator(line')
          /\ NoActiveCluster(activeCluster)
          /\ out' = <<"ERR_CLUSTER_NAME_EMPTY">>
          /\ inputBuffer' = <<>>

\* C34: while the buffer is not empty, a line other than exit, quit, clear and
\* help that starts with a command name, or with a word that is not an
\* allowed verb, is appended to the buffer and not given to the command tree;
\* the command branch is taken at an empty buffer only.
C34_BufferingBeatsCommands ==
    [][nread' # nread
       => /\ (inputBuffer # <<>> /\ NotBuiltin(line') /\ StartsLikeCommand(line'))
             => ReadAsFragment
          /\ path' = "command" => inputBuffer = <<>>]_vars

\* C34 witness: a login line typed after the first line of a statement is in
\* the buffer
C34_Witness ==
    /\ path = "sql"
    /\ pc = "prompt"
    /\ ~bufWasEmpty
    /\ Len(inputBuffer) = 2
    /\ FirstWordIsCommand[line]
    /\ inputBuffer[2] = line

\* C34 as stated: every such line, the built-in ones included
C34_NoCommandWhileBuffering ==
    [][(nread' # nread /\ inputBuffer # <<>> /\ StartsLikeCommand(line'))
       => ReadAsFragment]_vars

\* C35: at the prompt a non-empty buffer starts with a line whose first word
\* is an allowed verb and holds no line that ends with a terminator; when the
\* line read last ended a statement the buffer is empty, whatever became of
\* the flush.
C35_BufferInvariant ==
    pc = "prompt"
    => /\ inputBuffer # <<>>
          => /\ inputBuffer[1] # <<>>
             /\ FirstWordIsAllowed[inputBuffer[1]]
             /\ \A i \in 1..Len(inputBuffer) :
                  ~EndsWithTerminator(inputBuffer[i])
       /\ (path = "sql" /\ EndsWithTerminator(line)) => inputBuffer = <<>>

\* C35 witness: a statement of two lines was flushed, one of its groups failed
\* in execution, and the prompt is back with an empty buffer
C35_Witness ==
    /\ pc = "prompt"
    /\ path = "sql"
    /\ EndsWithTerminator(line)
    /\ ~bufWasEmpty
    /\ dispErr # {}
    /\ inputBuffer = <<>>

\* C36: a connection handle that is not nil is the registry's handle for the
\* active cluster, and every statement sent went to that handle.
C36_ConnOfActiveCluster ==
    /\ activeClusterConn # NilConn => activeClusterConn = Handle(activeCluster)
    /\ \A i \in 1..Len(calls) : calls[i].conn = Handle(activeCluster)

\* ---------------------------------------------------------------------
\* SqlQueryModel.Update
\* ---------------------------------------------------------------------

\* C38: whatever messages are delivered, the data-submission command of the
\* model's operation is issued at most once in a run; once a completion
\* message has been handled the mode is Queried and the program is quitting.
C38_SubmittedAtMostOnce ==
    /\ submitted <= 1
    /\ (hasMsgs \/ hasError) => (mode = BubblesModeQueried /\ spc \in {"quitting", "quit"})

====
